---- MODULE Spec2Model ----
(***************************************************************************)
(* Model of the two Arduino sketches kept in                               *)
(* src/Seperation/DRV8434S_Stepper_Demo_SPI.ino: the SPI sketch (lines     *)
(* 1-203) and the STEP/DIR sketch (lines 238-418).  Both are polling       *)
(* loops: read one serial line, trim it, lower-case it, dispatch on it,    *)
(* then run the step timer check.                                          *)
(*                                                                         *)
(* Strings are sequences of one-character strings.  An unsigned long       *)
(* (32 bits) is a pair <<hi, lo>> of 16-bit halves, so that the modulo     *)
(* 2^32 arithmetic of the timer check is computed exactly.                 *)
(*                                                                         *)
(* Spec is a board that runs one of the two sketches, built with a 16-bit  *)
(* or a 32-bit int.  SpecBoth is two boards of the same kind, one per      *)
(* sketch, fed the same serial lines and the same micros() readings.       *)
(* One action is one iteration of loop().                                  *)
(***************************************************************************)
EXTENDS Integers, Sequences, FiniteSets, TLC

VARIABLES sketch, spi, sdir, available, line, intBits

vars == <<sketch, spi, sdir, available, line, intBits>>

(***************************************************************************)
(* Bounds of the model.                                                    *)
(***************************************************************************)
\* largest number of white-space characters put before and after a command
MaxPad == 1

(***************************************************************************)
(* Characters and words.                                                   *)
(***************************************************************************)
UpperChars == <<"A","B","C","D","E","F","G","H","I","J","K","L","M",
                "N","O","P","Q","R","S","T","U","V","W","X","Y","Z">>
LowerChars == <<"a","b","c","d","e","f","g","h","i","j","k","l","m",
                "n","o","p","q","r","s","t","u","v","w","x","y","z">>
DigitChars == <<"0","1","2","3","4","5","6","7","8","9">>

StrStart   == <<"s","t","a","r","t">>
StrS       == <<"s">>
StrStop    == <<"s","t","o","p">>
StrX       == <<"x">>
StrForward == <<"f","o","r","w","a","r","d">>
StrF       == <<"f">>
StrReverse == <<"r","e","v","e","r","s","e">>
StrR       == <<"r">>
StrSpeedSp == <<"s","p","e","e","d"," ">>
StrStatus  == <<"s","t","a","t","u","s">>
StrQ       == <<"?">>
StrHelp    == <<"h","e","l","p">>
StrH       == <<"h">>
StrFault   == <<"f","a","u","l","t">>
StrEnable  == <<"e","n","a","b","l","e">>
StrDisable == <<"d","i","s","a","b","l","e">>

\* the first line each branch of processCommand prints
MsgStarted    == "Motor STARTED"
MsgStopped    == "Motor STOPPED"
MsgForward    == "Direction set to FORWARD"
MsgReverse    == "Direction set to REVERSE"
MsgSpeedSet   == "Speed set to "
MsgSpeedError == "ERROR: Speed must be between 100 and 50000"
MsgStatus     == "=== MOTOR STATUS ==="
MsgHelp       == "=== COMMANDS ==="
MsgFault      == "Fault Status: 0x"
MsgEnabled    == "Driver ENABLED"
MsgDisabled   == "Driver DISABLED"
MsgUnknown    == "Unknown command. Type 'help' for commands."
MsgNone       == ""

(***************************************************************************)
(* Arduino String operations used by loop and processCommand.              *)
(***************************************************************************)
\* isspace() of the C locale (the vertical tab has no TLA+ spelling)
isspace(c) == c \in {" ", "\t", "\n", "\f", "\r"}

RECURSIVE trimLeft(_)
trimLeft(s) ==
  IF s # <<>> /\ isspace(Head(s)) THEN trimLeft(Tail(s)) ELSE s

RECURSIVE trimRight(_)
trimRight(s) ==
  IF s # <<>> /\ isspace(s[Len(s)]) THEN trimRight(SubSeq(s, 1, Len(s) - 1))
  ELSE s

\* String::trim: drops leading and trailing white space
trim(s) == trimRight(trimLeft(s))

LowerOf == [c \in {UpperChars[i] : i \in 1..26} |->
              LowerChars[CHOOSE i \in 1..26 : UpperChars[i] = c]]

tolower(c) == IF c \in DOMAIN LowerOf THEN LowerOf[c] ELSE c

\* String::toLowerCase
toLowerCase(s) == [i \in 1..Len(s) |-> tolower(s[i])]

\* String::startsWith
startsWith(s, p) == Len(s) >= Len(p) /\ SubSeq(s, 1, Len(p)) = p

\* String::substring(beginIndex), zero-based
substring(s, from) == IF from >= Len(s) THEN <<>> ELSE SubSeq(s, from + 1, Len(s))

isdigit(c) == \E i \in 1..10 : DigitChars[i] = c
digitValue(c) == (CHOOSE i \in 1..10 : DigitChars[i] = c) - 1

RECURSIVE atolDigits(_, _)
atolDigits(s, acc) ==
  IF s # <<>> /\ isdigit(Head(s))
  THEN atolDigits(Tail(s), acc * 10 + digitValue(Head(s)))
  ELSE acc

\* atol: skips white space, reads an optional sign and the leading digits,
\* stops at the first other character; 0 when there is no digit.
\* (The lines of this model keep the value within the range of long.)
atol(s) ==
  LET t == trimLeft(s)
  IN  IF t # <<>> /\ Head(t) = "-" THEN 0 - atolDigits(Tail(t), 0)
      ELSE IF t # <<>> /\ Head(t) = "+" THEN atolDigits(Tail(t), 0)
      ELSE atolDigits(t, 0)

\* String::toInt returns the long that atol computes
toInt(s) == atol(s)

\* conversion of a long to int: the identity when int has 32 bits, the
\* value modulo 2^16 taken as a signed number when int has 16 bits (AVR)
longToInt(v, bits) ==
  IF bits = 16 THEN ((v + 32768) % 65536) - 32768 ELSE v

\* conversion of an int to uint16_t
toUint16(v) == v % 65536

(***************************************************************************)
(* unsigned long arithmetic, on pairs <<hi, lo>> of 16-bit halves.         *)
(***************************************************************************)
Sub32(a, b) ==
  LET borrow == IF a[2] < b[2] THEN 1 ELSE 0
  IN  << (a[1] - b[1] - borrow) % 65536, (a[2] - b[2]) % 65536 >>

Add32(a, b) ==
  LET carry == IF a[2] + b[2] >= 65536 THEN 1 ELSE 0
  IN  << (a[1] + b[1] + carry) % 65536, (a[2] + b[2]) % 65536 >>

Ge32(a, b) == a[1] > b[1] \/ (a[1] = b[1] /\ a[2] >= b[2])

\* a uint16_t promoted to unsigned long
Promote(v) == <<0, v>>

(***************************************************************************)
(* The serial lines and micros() readings the sketches are fed.            *)
(***************************************************************************)
RECURSIVE DecDigits(_)
DecDigits(n) ==
  IF n < 10 THEN <<DigitChars[n + 1]>>
  ELSE DecDigits(n \div 10) \o <<DigitChars[(n % 10) + 1]>>

\* the decimal numeral of an integer, as typed on the serial monitor
Dec(n) == IF n < 0 THEN <<"-">> \o DecDigits(0 - n) ELSE DecDigits(n)

\* the line 'speed <n>'
SpeedLine(n) == StrSpeedSp \o Dec(n)

\* numeric arguments of 'speed': both sides of each end of the documented
\* range, both sides of the largest 16-bit int, a negative value, and two
\* values that are 100 modulo 2^16
SpeedArgs == {-65436, -1, 99, 100, 32767, 32768, 50000, 50001, 65636}

\* command words of either sketch, long and short
CommandWords ==
  {StrStart, StrS, StrStop, StrX, StrForward, StrF, StrReverse, StrR,
   StrStatus, StrQ, StrHelp, StrH, StrFault, StrEnable, StrDisable}

\* lines that are no command: empty, bare 'speed', a word of no sketch,
\* 'speed' with a non-numeric argument
OtherLines ==
  {<<>>, <<"s","p","e","e","d">>, <<"g","o">>,
   StrSpeedSp \o <<"a","b","c">>}

\* upper-case and padded spellings as a serial monitor sends them
SpelledLines ==
  {<<"S","T","A","R","T">>, <<"S","t","o","p","\r">>,
   <<" ","r","\r">>, <<"S","P","E","E","D"," ","1","0","0","a","b","c">>}

Lines == CommandWords \cup {SpeedLine(n) : n \in SpeedArgs}
           \cup OtherLines \cup SpelledLines

\* micros() readings: one period of 2000 us after 0 and 1 us less, 100 us
\* before the wrap-around of the 32-bit counter, and 2000 us after that.  Every
\* reading may follow every other: the time between two readings is not
\* bounded (a stopped motor reads no clock), and the counter wraps.
Times == {<<0, 1900>>, <<0, 1999>>, <<0, 2000>>, <<65535, 65436>>}

(***************************************************************************)
(* The SPI sketch (lines 1-203).                                           *)
(***************************************************************************)
\* globals after setup(); sdDirection is the DIR bit of the driver, 0
\* after sd.resetSettings().  out, stepped, stepDir and dirWrites record
\* what one loop iteration printed first and sent to the driver; lastStep
\* records the micros() reading of the last step and, in an iteration that
\* steps, prevStep the reading of the step before it.
setup_SPI ==
  [motorRunning |-> FALSE, motorDirection |-> 0, stepPeriodUs |-> 2000,
   lastStepTime |-> <<0, 0>>, sdDirection |-> 0,
   out |-> MsgNone, stepped |-> FALSE, stepDir |-> <<>>, dirWrites |-> 0,
   lastStep |-> <<>>, prevStep |-> <<>>]

start_SPI(st) ==
  [st EXCEPT !.motorRunning = TRUE, !.sdDirection = st.motorDirection,
             !.dirWrites = @ + 1, !.out = MsgStarted]

stop_SPI(st) == [st EXCEPT !.motorRunning = FALSE, !.out = MsgStopped]

forward_SPI(st) ==
  [st EXCEPT !.motorDirection = 0, !.sdDirection = 0,
             !.dirWrites = @ + 1, !.out = MsgForward]

\* reverse_SPI without the write to the driver
reverse_SPI_NoWrite(st) == [st EXCEPT !.motorDirection = 1, !.out = MsgReverse]

reverse_SPI(st) ==
  [st EXCEPT !.motorDirection = 1, !.sdDirection = 1,
             !.dirWrites = @ + 1, !.out = MsgReverse]

speed_SPI(st, cmd, bits) ==
  LET newSpeed == longToInt(toInt(substring(cmd, 6)), bits)
  IN  IF newSpeed >= 100 /\ newSpeed <= 50000
      THEN [st EXCEPT !.stepPeriodUs = toUint16(newSpeed), !.out = MsgSpeedSet]
      ELSE [st EXCEPT !.out = MsgSpeedError]

printStatus_SPI(st) == [st EXCEPT !.out = MsgStatus]

printHelp_SPI(st) == [st EXCEPT !.out = MsgHelp]

\* printDriverStatus that also stops the motor
printDriverStatus_Stops(st) ==
  [st EXCEPT !.out = MsgFault, !.motorRunning = FALSE]

printDriverStatus(st) == [st EXCEPT !.out = MsgFault]

isStart_SPI(cmd) == cmd = StrStart \/ cmd = StrS

isStop_SPI(cmd) == cmd = StrStop \/ cmd = StrX

isForward_SPI(cmd) == cmd = StrForward \/ cmd = StrF

isReverse_SPI(cmd) == cmd = StrReverse \/ cmd = StrR

\* isSpeed_SPI without the blank after the word
isSpeed_SPI_NoBlank(cmd) == startsWith(cmd, <<"s","p","e","e","d">>)

isSpeed_SPI(cmd) == startsWith(cmd, StrSpeedSp)

isStatus_SPI(cmd) == cmd = StrStatus \/ cmd = StrQ

isHelp_SPI(cmd) == cmd = StrHelp \/ cmd = StrH

\* isFault_SPI with the word misspelt
isFault_SPI_Misspelt(cmd) == cmd = <<"f","a","u","l","t","s">>

isFault_SPI(cmd) == cmd = StrFault

processCommand_SPI(st, cmd, bits) ==
  IF isStart_SPI(cmd) THEN start_SPI(st)
  ELSE IF isStop_SPI(cmd) THEN stop_SPI(st)
  ELSE IF isForward_SPI(cmd) THEN forward_SPI(st)
  ELSE IF isReverse_SPI(cmd) THEN reverse_SPI(st)
  ELSE IF isSpeed_SPI(cmd) THEN speed_SPI(st, cmd, bits)
  ELSE IF isStatus_SPI(cmd) THEN printStatus_SPI(st)
  ELSE IF isHelp_SPI(cmd) THEN printHelp_SPI(st)
  ELSE IF isFault_SPI(cmd) THEN printDriverStatus(st)
  ELSE [st EXCEPT !.out = MsgUnknown]

\* stepDue_SPI without the test of motorRunning
stepDue_SPI_NotGuarded(st, currentTime) ==
  Ge32(Sub32(currentTime, st.lastStepTime), Promote(st.stepPeriodUs))

\* the timer check of loop: currentTime - lastStepTime >= stepPeriodUs
stepDue_SPI(st, currentTime) ==
  st.motorRunning
  /\ Ge32(Sub32(currentTime, st.lastStepTime), Promote(st.stepPeriodUs))

\* command.trim(); command.toLowerCase();
readCommand_SPI(ln) == toLowerCase(trim(ln))

\* loop_SPI with the step check placed before the serial handling
loop_SPI_StepFirst(st, avail, ln, currentTime, bits) ==
  LET fresh == [st EXCEPT !.out = MsgNone, !.stepped = FALSE,
                          !.stepDir = <<>>, !.dirWrites = 0,
                          !.prevStep = <<>>]
      c == IF stepDue_SPI(fresh, currentTime)
           THEN [fresh EXCEPT !.stepped = TRUE,
                              !.stepDir = <<fresh.sdDirection>>,
                              !.lastStepTime = currentTime,
                              !.lastStep = <<currentTime>>,
                              !.prevStep = fresh.lastStep]
           ELSE fresh
  IN  IF avail THEN processCommand_SPI(c, readCommand_SPI(ln), bits) ELSE c

\* one iteration of loop(): avail is Serial.available() > 0, ln the line
\* readStringUntil returns, currentTime the reading of micros()
loop_SPI(st, avail, ln, currentTime, bits) ==
  LET fresh == [st EXCEPT !.out = MsgNone, !.stepped = FALSE,
                          !.stepDir = <<>>, !.dirWrites = 0,
                          !.prevStep = <<>>]
      c == IF avail THEN processCommand_SPI(fresh, readCommand_SPI(ln), bits)
           ELSE fresh
  IN  IF stepDue_SPI(c, currentTime)
      THEN [c EXCEPT !.stepped = TRUE, !.stepDir = <<c.sdDirection>>,
                     !.lastStepTime = currentTime,
                     !.lastStep = <<currentTime>>, !.prevStep = c.lastStep]
      ELSE c

(***************************************************************************)
(* The STEP/DIR sketch (lines 238-418).                                    *)
(***************************************************************************)
STEP_PIN == 3
DIR_PIN == 2
ENABLE_PIN == 4

\* globals and pin levels after setup() (TRUE is HIGH)
setup_SD ==
  [motorRunning |-> FALSE, motorDirection |-> FALSE, stepPeriodUs |-> 2000,
   lastStepTime |-> <<0, 0>>,
   pin |-> [p \in {STEP_PIN, DIR_PIN, ENABLE_PIN} |-> p = ENABLE_PIN],
   out |-> MsgNone, stepped |-> FALSE, stepDir |-> <<>>, dirWrites |-> 0,
   lastStep |-> <<>>, prevStep |-> <<>>]

start_SD(st) ==
  [st EXCEPT !.motorRunning = TRUE, !.pin[DIR_PIN] = st.motorDirection,
             !.dirWrites = @ + 1, !.out = MsgStarted]

stop_SD(st) ==
  [st EXCEPT !.motorRunning = FALSE, !.pin[STEP_PIN] = FALSE,
             !.out = MsgStopped]

forward_SD(st) ==
  [st EXCEPT !.motorDirection = FALSE, !.pin[DIR_PIN] = FALSE,
             !.dirWrites = @ + 1, !.out = MsgForward]

\* reverse_SD with the level of DIR_PIN inverted
reverse_SD_Inverted(st) ==
  [st EXCEPT !.motorDirection = TRUE, !.pin[DIR_PIN] = FALSE,
             !.dirWrites = @ + 1, !.out = MsgReverse]

reverse_SD(st) ==
  [st EXCEPT !.motorDirection = TRUE, !.pin[DIR_PIN] = TRUE,
             !.dirWrites = @ + 1, !.out = MsgReverse]

speed_SD(st, cmd, bits) ==
  LET newSpeed == longToInt(toInt(substring(cmd, 6)), bits)
  IN  IF newSpeed >= 100 /\ newSpeed <= 50000
      THEN [st EXCEPT !.stepPeriodUs = toUint16(newSpeed), !.out = MsgSpeedSet]
      ELSE [st EXCEPT !.out = MsgSpeedError]

printStatus_SD(st) == [st EXCEPT !.out = MsgStatus]

printHelp_SD(st) == [st EXCEPT !.out = MsgHelp]

enable_SD(st) == [st EXCEPT !.pin[ENABLE_PIN] = TRUE, !.out = MsgEnabled]

disable_SD(st) ==
  [st EXCEPT !.pin[ENABLE_PIN] = FALSE, !.motorRunning = FALSE,
             !.out = MsgDisabled]

isStart_SD(cmd) == cmd = StrStart \/ cmd = StrS

\* isStop_SD without the short form
isStop_SD_LongOnly(cmd) == cmd = StrStop

isStop_SD(cmd) == cmd = StrStop \/ cmd = StrX

isForward_SD(cmd) == cmd = StrForward \/ cmd = StrF

isReverse_SD(cmd) == cmd = StrReverse \/ cmd = StrR

isSpeed_SD(cmd) == startsWith(cmd, StrSpeedSp)

isStatus_SD(cmd) == cmd = StrStatus \/ cmd = StrQ

isHelp_SD(cmd) == cmd = StrHelp \/ cmd = StrH

isEnable_SD(cmd) == cmd = StrEnable

isDisable_SD(cmd) == cmd = StrDisable

processCommand_SD(st, cmd, bits) ==
  IF isStart_SD(cmd) THEN start_SD(st)
  ELSE IF isStop_SD(cmd) THEN stop_SD(st)
  ELSE IF isForward_SD(cmd) THEN forward_SD(st)
  ELSE IF isReverse_SD(cmd) THEN reverse_SD(st)
  ELSE IF isSpeed_SD(cmd) THEN speed_SD(st, cmd, bits)
  ELSE IF isStatus_SD(cmd) THEN printStatus_SD(st)
  ELSE IF isHelp_SD(cmd) THEN printHelp_SD(st)
  ELSE IF isEnable_SD(cmd) THEN enable_SD(st)
  ELSE IF isDisable_SD(cmd) THEN disable_SD(st)
  ELSE [st EXCEPT !.out = MsgUnknown]

\* the timer check of loop: currentTime - lastStepTime >= stepPeriodUs
\* stepDue_SD with the deadline computed by addition and compared as is:
\* currentTime >= lastStepTime + stepPeriodUs
stepDue_SD_Deadline(st, currentTime) ==
  st.motorRunning
  /\ Ge32(currentTime, Add32(st.lastStepTime, Promote(st.stepPeriodUs)))

stepDue_SD(st, currentTime) ==
  st.motorRunning
  /\ Ge32(Sub32(currentTime, st.lastStepTime), Promote(st.stepPeriodUs))

readCommand_SD(ln) == toLowerCase(trim(ln))

\* one iteration of loop(); the pulse leaves STEP_PIN LOW again
loop_SD(st, avail, ln, currentTime, bits) ==
  LET fresh == [st EXCEPT !.out = MsgNone, !.stepped = FALSE,
                          !.stepDir = <<>>, !.dirWrites = 0,
                          !.prevStep = <<>>]
      c == IF avail THEN processCommand_SD(fresh, readCommand_SD(ln), bits)
           ELSE fresh
  IN  IF stepDue_SD(c, currentTime)
      THEN [c EXCEPT !.pin[STEP_PIN] = FALSE,
                     !.stepped = TRUE, !.stepDir = <<c.pin[DIR_PIN]>>,
                     !.lastStepTime = currentTime,
                     !.lastStep = <<currentTime>>, !.prevStep = c.lastStep]
      ELSE c

(***************************************************************************)
(* The state machine.                                                      *)
(***************************************************************************)
\* widths of int among the boards the sketches build for: 16 (AVR boards
\* such as Uno and Leonardo) and 32 (ARM boards)
IntWidths == {16, 32}

\* the lines both sketches have a branch for, and the lines of no sketch
SharedLines == Lines \ {StrFault, StrEnable, StrDisable}

runsSPI == sketch \in {"SPI", "both"}
runsSD == sketch \in {"STEP/DIR", "both"}

\* a board runs one of the two sketches
Init ==
  /\ sketch \in {"SPI", "STEP/DIR"}
  /\ spi = setup_SPI
  /\ sdir = setup_SD
  /\ available = FALSE
  /\ line = <<>>
  /\ intBits \in IntWidths

\* two boards of the same kind, one per sketch, fed the same lines and
\* the same micros() readings
InitBoth ==
  /\ sketch = "both"
  /\ spi = setup_SPI
  /\ sdir = setup_SD
  /\ available = FALSE
  /\ line = <<>>
  /\ intBits \in IntWidths

Iterate(avail, ln, t) ==
  /\ available' = avail
  /\ line' = ln
  /\ spi' = IF runsSPI THEN loop_SPI(spi, avail, ln, t, intBits) ELSE spi
  /\ sdir' = IF runsSD THEN loop_SD(sdir, avail, ln, t, intBits) ELSE sdir
  /\ UNCHANGED <<sketch, intBits>>

\* a loop iteration with no serial data waiting
LoopIdle == \E t \in Times : Iterate(FALSE, <<>>, t)

\* a loop iteration that reads a line
LoopCommand ==
  \E ln \in (IF sketch = "both" THEN SharedLines ELSE Lines) :
    \E t \in Times : Iterate(TRUE, ln, t)

Next == LoopIdle \/ LoopCommand

Spec == Init /\ [][Next]_vars

SpecBoth == InitBoth /\ [][Next]_vars

\* the command the last iteration dispatched on
command == toLowerCase(trim(line))

TypeOK ==
  /\ spi.motorRunning \in BOOLEAN /\ sdir.motorRunning \in BOOLEAN
  /\ spi.motorDirection \in {0, 1} /\ sdir.motorDirection \in BOOLEAN
  /\ spi.stepPeriodUs \in 0..65535 /\ sdir.stepPeriodUs \in 0..65535

(***************************************************************************)
(* Vocabulary of the properties.                                           *)
(***************************************************************************)
StartWords == {StrStart, StrS}
StopWords == {StrStop, StrX}

\* the bare word 'speed'
StrSpeed == <<"s","p","e","e","d">>

\* the last iteration read the line 'speed <n>'
SpeedCommand(n) == available /\ command = SpeedLine(n)

(***************************************************************************)
(* C1.  A step is issued only in a loop iteration where motorRunning is    *)
(* true: an iteration steps only if the motor was running before it or it  *)
(* processes 'start' ('s'); a motor that is not running stays so until     *)
(* 'start' ('s') is processed; an iteration that processes 'stop' ('x')    *)
(* issues no step and leaves the motor stopped.  Both sketches.            *)
(***************************************************************************)
StepRule(old, new, avail, cmd) ==
  /\ new.stepped => new.motorRunning
  /\ new.stepped => (old.motorRunning \/ (avail /\ cmd \in StartWords))
  /\ (~old.motorRunning /\ ~(avail /\ cmd \in StartWords)) => ~new.motorRunning
  /\ (avail /\ cmd \in StopWords) => (~new.stepped /\ ~new.motorRunning)

C1_StepOnlyWhileRunning ==
  [][ LET cmd == command'
      IN  /\ runsSPI => StepRule(spi, spi', available', cmd)
          /\ runsSD => StepRule(sdir, sdir', available', cmd) ]_vars

\* a step issued in the very iteration that processes 'start'
C1_Witness ==
  /\ runsSPI /\ available /\ command \in StartWords
  /\ spi.stepped /\ spi.motorRunning

(***************************************************************************)
(* C2.  For every N with 100 <= N <= 50000 the command 'speed N' is        *)
(* accepted and afterwards stepPeriodUs equals N.  Both sketches.          *)
(***************************************************************************)
C2_SpeedInRangeAccepted ==
  \A n \in SpeedArgs :
    (SpeedCommand(n) /\ 100 <= n /\ n <= 50000) =>
      /\ runsSPI => (spi.out = MsgSpeedSet /\ spi.stepPeriodUs = n)
      /\ runsSD => (sdir.out = MsgSpeedSet /\ sdir.stepPeriodUs = n)

(***************************************************************************)
(* C3.  For every 'speed <arg>' whose argument is an integer outside       *)
(* 100..50000 or is not a number, the sketch prints the range error and    *)
(* leaves stepPeriodUs unchanged; 100 <= stepPeriodUs <= 50000 always.     *)
(***************************************************************************)
\* the argument of the command is out of range or is no number
BadSpeedCommand(avail, cmd) ==
  /\ avail
  /\ \/ \E n \in SpeedArgs : cmd = SpeedLine(n) /\ (n < 100 \/ n > 50000)
     \/ cmd = StrSpeedSp \o <<"a","b","c">>

SpeedRejected(old, new) ==
  new.out = MsgSpeedError /\ new.stepPeriodUs = old.stepPeriodUs

PeriodInRange(st) == 100 <= st.stepPeriodUs /\ st.stepPeriodUs <= 50000

C3_SpeedOutOfRangeRejected ==
  [][ LET bad == BadSpeedCommand(available', command')
      IN  /\ runsSPI => /\ PeriodInRange(spi')
                        /\ bad => SpeedRejected(spi, spi')
          /\ runsSD => /\ PeriodInRange(sdir')
                       /\ bad => SpeedRejected(sdir, sdir') ]_vars

(***************************************************************************)
(* C4.  Both sketches recognise start, stop, forward, reverse, speed,      *)
(* status and fault: neither answers any of them with 'Unknown command'.   *)
(***************************************************************************)
InterfaceCommand(cmd) ==
  \/ cmd \in {StrStart, StrStop, StrForward, StrReverse, StrStatus, StrFault}
  \/ startsWith(cmd, StrSpeedSp)

C4_AllRecognisedByBoth ==
  (available /\ InterfaceCommand(command)) =>
    /\ runsSPI => spi.out # MsgUnknown
    /\ runsSD => sdir.out # MsgUnknown

\* C4 as amended: the SPI sketch recognises all of them; the STEP/DIR
\* sketch recognises all of them but 'fault', which it answers with
\* 'Unknown command'.
C4_RecognisedPerSketch ==
  (available /\ InterfaceCommand(command)) =>
    /\ runsSPI => spi.out # MsgUnknown
    /\ runsSD => (sdir.out = MsgUnknown <=> command = StrFault)

\* the STEP/DIR sketch, motor running, has answered 'fault'
C4_Witness ==
  /\ available /\ command = StrFault
  /\ runsSD /\ sdir.out = MsgUnknown /\ sdir.motorRunning

(***************************************************************************)
(* C5.  The direction last written to the driver (the DIR bit set by       *)
(* sd.setDirection, the level of DIR_PIN) equals motorDirection in every   *)
(* reachable state; after 'forward' it is forward, after 'reverse' it is   *)
(* reverse, and every step goes in the direction of motorDirection,        *)
(* whether or not the motor was running when the command arrived.          *)
(***************************************************************************)
ForwardWords == {StrForward, StrF}
ReverseWords == {StrReverse, StrR}

C5_DriverDirectionIsMotorDirection ==
  /\ runsSPI =>
       /\ spi.sdDirection = spi.motorDirection
       /\ spi.stepped => spi.stepDir = <<spi.motorDirection>>
       /\ (available /\ command \in ForwardWords) => spi.sdDirection = 0
       /\ (available /\ command \in ReverseWords) => spi.sdDirection = 1
  /\ runsSD =>
       /\ sdir.pin[DIR_PIN] = sdir.motorDirection
       /\ sdir.stepped => sdir.stepDir = <<sdir.motorDirection>>
       /\ (available /\ command \in ForwardWords) => sdir.pin[DIR_PIN] = FALSE
       /\ (available /\ command \in ReverseWords) => sdir.pin[DIR_PIN] = TRUE

\* 'reverse' arrives while the motor runs and the step of the same
\* iteration goes in reverse
C5_Witness ==
  /\ runsSPI /\ available /\ command \in ReverseWords
  /\ spi.stepped /\ spi.stepDir = <<1>>

(***************************************************************************)
(* C6.  For any two consecutive steps, the micros() reading of the later   *)
(* minus the reading of the earlier, modulo 2^32, is at least the          *)
(* stepPeriodUs in force at the later step, also across a wrap-around.     *)
(***************************************************************************)
StepGapAtLeastPeriod(st) ==
  (st.stepped /\ st.prevStep # <<>>) =>
    Ge32(Sub32(st.lastStep[1], st.prevStep[1]), Promote(st.stepPeriodUs))

C6_StepsAtLeastOnePeriodApart ==
  /\ runsSPI => StepGapAtLeastPeriod(spi)
  /\ runsSD => StepGapAtLeastPeriod(sdir)

\* two consecutive steps with the wrap-around of micros() between them
C6_Witness ==
  /\ runsSD /\ sdir.stepped /\ sdir.prevStep # <<>>
  /\ sdir.prevStep[1][1] = 65535 /\ sdir.lastStep[1][1] = 0

(***************************************************************************)
(* C7.  A line changes motorRunning, motorDirection, stepPeriodUs or a     *)
(* driver output only if its trimmed, lower-cased form is a command word   *)
(* of the sketch or 'speed ' followed by a valid value; every other line   *)
(* prints 'Unknown command' and leaves that state unchanged.               *)
(***************************************************************************)
Words_SPI ==
  {StrStart, StrS, StrStop, StrX, StrForward, StrF, StrReverse, StrR,
   StrStatus, StrQ, StrHelp, StrH, StrFault}

Words_SD ==
  {StrStart, StrS, StrStop, StrX, StrForward, StrF, StrReverse, StrR,
   StrStatus, StrQ, StrHelp, StrH, StrEnable, StrDisable}

Changed_SPI(old, new) ==
  \/ new.motorRunning # old.motorRunning
  \/ new.motorDirection # old.motorDirection
  \/ new.stepPeriodUs # old.stepPeriodUs
  \/ new.sdDirection # old.sdDirection
  \/ new.dirWrites > 0

Changed_SD(old, new) ==
  \/ new.motorRunning # old.motorRunning
  \/ new.motorDirection # old.motorDirection
  \/ new.stepPeriodUs # old.stepPeriodUs
  \/ new.pin[DIR_PIN] # old.pin[DIR_PIN]
  \/ new.pin[ENABLE_PIN] # old.pin[ENABLE_PIN]
  \/ new.dirWrites > 0

\* 'speed ' followed by a value of the documented range
ValidSpeedCommand(cmd) ==
  \E n \in SpeedArgs : cmd = SpeedLine(n) /\ 100 <= n /\ n <= 50000

LineRule(isWord, isSpeed, changed, out) ==
  /\ changed => (isWord \/ isSpeed)
  /\ (isSpeed /\ out # MsgSpeedSet) => (out = MsgSpeedError /\ ~changed)
  /\ (~isWord /\ ~isSpeed) => (out = MsgUnknown /\ ~changed)

ShortLong ==
  {<<StrS, StrStart>>, <<StrX, StrStop>>, <<StrF, StrForward>>,
   <<StrR, StrReverse>>, <<StrQ, StrStatus>>, <<StrH, StrHelp>>}

UpperOf == [c \in {LowerChars[i] : i \in 1..26} |->
              UpperChars[CHOOSE i \in 1..26 : LowerChars[i] = c]]

toUpperCase(s) ==
  [i \in 1..Len(s) |-> IF s[i] \in DOMAIN UpperOf THEN UpperOf[s[i]] ELSE s[i]]

\* s after i blanks and before j white-space characters, the last of them
\* the carriage return of a CR LF line ending
Pad(i, j, s) ==
  [k \in 1..i |-> " "] \o s \o [k \in 1..j |-> IF k = j THEN "\r" ELSE " "]

\* the plain lower-case commands
PlainCommands == CommandWords \cup {SpeedLine(100), SpeedLine(50001)}

\* the spellings of each plain command
Spellings ==
  [b \in PlainCommands |->
     {Pad(i, j, c) : i \in 0..MaxPad, j \in 0..MaxPad, c \in {b, toUpperCase(b)}}]

\* every line of vs has the effect of the line b, whatever micros() reads
SameEffect_SPI(vs, b) ==
  \A t \in Times :
    LET plain == loop_SPI(spi, TRUE, b, t, intBits)
    IN  \A v \in vs : loop_SPI(spi, TRUE, v, t, intBits) = plain

SameEffect_SD(vs, b) ==
  \A t \in Times :
    LET plain == loop_SD(sdir, TRUE, b, t, intBits)
    IN  \A v \in vs : loop_SD(sdir, TRUE, v, t, intBits) = plain

C8_SpellingsHaveSameEffect ==
  /\ runsSPI =>
       /\ \A p \in ShortLong : SameEffect_SPI({p[1]}, p[2])
       /\ \A b \in PlainCommands : SameEffect_SPI(Spellings[b], b)
  /\ runsSD =>
       /\ \A p \in ShortLong : SameEffect_SD({p[1]}, p[2])
       /\ \A b \in PlainCommands : SameEffect_SD(Spellings[b], b)

\* a padded, capitalised 'stop' has stopped a running motor
C8_Witness ==
  /\ runsSD /\ available /\ line = <<"S","t","o","p","\r">>
  /\ sdir.out = MsgStopped /\ ~sdir.motorRunning /\ sdir.lastStep # <<>>

(***************************************************************************)
(* C9.  Processing 'status' ('?'), 'help' ('h') or 'fault' only prints:    *)
(* from every reachable state it leaves motorRunning, motorDirection,      *)
(* stepPeriodUs and lastStepTime unchanged and issues no direction write   *)
(* and no step.                                                            *)
(***************************************************************************)
InfoWords == {StrStatus, StrQ, StrHelp, StrH, StrFault}

C9_InfoCommandsOnlyPrint ==
  \A c \in InfoWords :
    /\ runsSPI =>
         LET after == processCommand_SPI(spi, c, intBits)
         IN  /\ after = [spi EXCEPT !.out = after.out]
             /\ after.out \in {MsgStatus, MsgHelp, MsgFault}
    /\ runsSD =>
         LET after == processCommand_SD(sdir, c, intBits)
         IN  /\ after = [sdir EXCEPT !.out = after.out]
             /\ after.out \in {MsgStatus, MsgHelp, MsgUnknown}

\* 'fault' has been processed with the motor running in reverse
C9_Witness ==
  /\ runsSPI /\ available /\ command = StrFault /\ spi.out = MsgFault
  /\ spi.motorRunning /\ spi.motorDirection = 1

(***************************************************************************)
(* C10.  Fed the same lines, drawn from the commands both sketches share,  *)
(* and the same micros() readings, the two sketches stay in corresponding  *)
(* states after every iteration: equal motorRunning, stepPeriodUs and      *)
(* lastStepTime, the same direction (0/1 as false/true), and a step by     *)
(* one exactly when the other steps.                                       *)
(***************************************************************************)
C10_SketchesCorrespond ==
  sketch = "both" =>
    /\ spi.motorRunning = sdir.motorRunning
    /\ spi.stepPeriodUs = sdir.stepPeriodUs
    /\ spi.lastStepTime = sdir.lastStepTime
    /\ (spi.motorDirection = 1) = sdir.motorDirection
    /\ (spi.sdDirection = 1) = sdir.pin[DIR_PIN]
    /\ spi.stepped = sdir.stepped
    /\ spi.stepDir = <<1>> <=> sdir.stepDir = <<TRUE>>

\* both sketches step in reverse with a period set by 'speed'
C10_Witness ==
  /\ sketch = "both" /\ spi.stepped /\ sdir.stepped
  /\ spi.stepDir = <<1>> /\ sdir.stepDir = <<TRUE>>
  /\ spi.stepPeriodUs = 100 /\ sdir.stepPeriodUs = 100

(***************************************************************************)
(* C11.  Each loop iteration processes at most one command line and        *)
(* issues at most one step, and the command is processed before the step   *)
(* check of the same iteration: from every reachable state, whatever line  *)
(* arrives and whatever micros() reads, the iteration writes the direction *)
(* at most once, records at most one step, and steps exactly when the      *)
(* motor runs after the command and the time since the last step is at     *)
(* least the period after the command, in the direction after the          *)
(* command; an iteration that processes 'stop' issues no step.             *)
(***************************************************************************)
\* r is the state after an iteration that starts in st, reads micros() as
\* t and, when avail, dispatches on cmd
IterationRule(st, r, avail, cmd, t) ==
  /\ r.dirWrites <= 1
  /\ r.out # MsgNone <=> avail
  /\ r.stepped => (r.lastStep = <<t>> /\ r.prevStep = st.lastStep
                     /\ r.lastStepTime = t)
  /\ ~r.stepped => (r.lastStep = st.lastStep
                      /\ r.lastStepTime = st.lastStepTime)
  /\ r.stepped <=>
       (r.motorRunning
          /\ Ge32(Sub32(t, st.lastStepTime), Promote(r.stepPeriodUs)))
  /\ r.stepped => r.stepDir = <<r.motorDirection>>
  /\ (avail /\ cmd \in StopWords) => ~r.stepped

\* the lines an iteration may read, and <<FALSE, <<>>>> for no line
IterationInputs == {<<TRUE, ln>> : ln \in Lines} \cup {<<FALSE, <<>>>>}

C11_CommandBeforeStepCheck ==
  \A in \in IterationInputs : \A t \in Times :
    LET cmd == toLowerCase(trim(in[2]))
    IN  /\ runsSPI =>
             LET r == loop_SPI(spi, in[1], in[2], t, intBits)
             IN  /\ IterationRule(spi, r, in[1], cmd, t)
                 /\ (in[1] /\ cmd \in ForwardWords) => r.motorDirection = 0
                 /\ (in[1] /\ cmd \in ReverseWords) => r.motorDirection = 1
        /\ runsSD =>
             LET r == loop_SD(sdir, in[1], in[2], t, intBits)
             IN  /\ IterationRule(sdir, r, in[1], cmd, t)
                 /\ (in[1] /\ cmd \in ForwardWords) => r.motorDirection = FALSE
                 /\ (in[1] /\ cmd \in ReverseWords) => r.motorDirection = TRUE

\* the iteration that processed 'speed 100' stepped 100 us after the
\* previous step: the new period was applied to its own step check
C11_Witness ==
  /\ runsSPI /\ available /\ command = SpeedLine(100)
  /\ spi.stepped /\ spi.prevStep # <<>>
  /\ Sub32(spi.lastStep[1], spi.prevStep[1]) = <<0, 100>>

====
